---------------------------- MODULE Spec2Model ----------------------------
(***************************************************************************)
(* Model of collector/collector.go of github_billing_exporter: the         *)
(* collector registry (registerCollector), the flag layer's effect on it,  *)
(* NewBillingCollector, Describe, Collect and execute.                     *)
(*                                                                         *)
(* A Go map is a function on the set of its keys.  A goroutine is a task   *)
(* with a program counter; every statement that touches shared state (the  *)
(* metric channel, the WaitGroup, the logger) is a step of its own.        *)
(***************************************************************************)
EXTENDS Naturals, Sequences, FiniteSets, Bags, TLC

\* Collector names the registering init() functions may use.
Names == {"A", "B"}

\* At most this many registerCollector calls are made.
MaxRegs == 2
\* An Update call sends at most this many metrics of its own.
MaxMetrics == 1
\* At most this many Collect calls are made on the orchestrator.
MaxCycles == 2

\* Slots for Collect calls in flight.  The scrapes of Spec follow one another
\* and all use slot 1.
Calls == {1, 2}

\* A nil error; the errors an Update may return; the error of a factory.
NoError == "nil"
ErrorDetails == {"quota exceeded"}
FactoryErrors == {"bad token"}

\* A nil *BillingCollector.
NoCollector == [nil |-> TRUE]

VARIABLES
    factories,        \* map name -> factory; the factory passed by the k-th
                      \* registration under name n is named <<n, k>>
    collectorState,   \* map name -> the *bool of the flag: which flag (gen),
                      \* its default, its current value
    forcedCollectors, \* map name -> bool, as set by the flag actions
    regCalls,         \* name -> number of registerCollector calls so far
    regDefaults,      \* name -> the isDefaultEnabled arguments of those calls
    cmdline,          \* name -> what the command line supplied for its flag:
                      \* "none", "true" or "false" (empty until it is parsed)
    phase,            \* where the process stands: "init", "parsed",
                      \* "fatal",
                      \* "building", "built", "buildFailed"
    visited,          \* keys of collectorState the build loop has visited
    collectors,       \* the local map of NewBillingCollector
    ctorCalls,        \* name -> number of factory invocations under that key
    buildResult,      \* what NewBillingCollector returned: <<orchestrator, err>>
    logs,             \* bag of entries written to the logger
    callpc,           \* per Collect call: "idle", "dispatching", "awaiting",
                      \* "returned"
    wg,               \* per Collect call: the WaitGroup counter
    taskpc,           \* per call and collector: position of its goroutine
    updateCalls,      \* per call and collector: Update invocations this call
    emitted,          \* per call and collector: own metrics sent this call
    err,              \* per call and collector: what Update returned
    sink,             \* per call: the sequence of samples sent on ch, whose
                      \* reader takes every sample offered
    ncycles,          \* Collect calls made so far
    descs             \* what the latest Describe call sent on its channel

regVars   == <<factories, collectorState, forcedCollectors, regCalls,
               regDefaults, cmdline>>
buildVars == <<visited, collectors, ctorCalls, buildResult>>
callVars  == <<callpc, wg, taskpc, updateCalls, emitted, err, sink, ncycles>>
vars == <<factories, collectorState, forcedCollectors, regCalls,
          regDefaults, cmdline, phase,
          visited, collectors, ctorCalls, buildResult, logs,
          callpc, wg, taskpc, updateCalls, emitted, err, sink, ncycles, descs>>

\* m[k] = v on a Go map.
Put(m, k, v) == [x \in (DOMAIN m) \cup {k} |-> IF x = k THEN v ELSE m[x]]

EmptyMap == [x \in {} |-> TRUE]

RECURSIVE SumOver(_, _)
SumOver(f, S) ==
    IF S = {} THEN 0
    ELSE LET x == CHOOSE y \in S : TRUE IN f[x] + SumOver(f, S \ {x})

\* The descriptor `up`.
up == [fqName |-> "github_billing_up", help |-> "Can be test_server reached",
       labels |-> <<"collector">>]

\* prometheus.MustNewConstMetric(up, GaugeValue, success, name)
UpSample(name, success) ==
    [desc |-> "up", collector |-> name, value |-> success]

\* A metric a collector sends from inside Update.
OwnMetric(name) == [desc |-> "metric", collector |-> name, value |-> 0]

Init ==
    /\ factories = EmptyMap
    /\ collectorState = EmptyMap
    /\ forcedCollectors = EmptyMap
    /\ regCalls = [n \in Names |-> 0]
    /\ regDefaults = [n \in Names |-> <<>>]
    /\ cmdline = EmptyMap
    /\ phase = "init"
    /\ visited = {}
    /\ collectors = EmptyMap
    /\ ctorCalls = [n \in Names |-> 0]
    /\ buildResult = <<NoCollector, NoError>>
    /\ logs = EmptyBag
    /\ callpc = [c \in Calls |-> "idle"]
    /\ wg = [c \in Calls |-> 0]
    /\ taskpc = [c \in Calls |-> EmptyMap]
    /\ updateCalls = [c \in Calls |-> EmptyMap]
    /\ emitted = [c \in Calls |-> EmptyMap]
    /\ err = [c \in Calls |-> EmptyMap]
    /\ sink = [c \in Calls |-> <<>>]
    /\ ncycles = 0
    /\ descs = <<>>

---------------------------------------------------------------------------
(* registerCollector and the flag layer *)

\* The flag kingpin.Flag(...).Default(defaultValue)...Bool() creates: a fresh
\* bool, false until the command line is parsed.
NewFlag(gen, isDefaultEnabled) ==
    [gen |-> gen, default |-> isDefaultEnabled, value |-> FALSE]

\* Mutant of registerCollector: a name already registered keeps its entry.
registerCollectorKeepFirst(collector, isDefaultEnabled) ==
    LET gen == regCalls[collector] + 1 IN
    /\ phase = "init"
    /\ SumOver(regCalls, Names) < MaxRegs
    /\ regCalls' = [regCalls EXCEPT ![collector] = gen]
    /\ regDefaults' = [regDefaults EXCEPT
                          ![collector] = Append(@, isDefaultEnabled)]
    /\ IF collector \in DOMAIN factories
       THEN UNCHANGED <<collectorState, factories>>
       ELSE /\ collectorState' = Put(collectorState, collector,
                                     NewFlag(gen, isDefaultEnabled))
            /\ factories' = Put(factories, collector, <<collector, gen>>)
    /\ UNCHANGED <<forcedCollectors, cmdline, phase, buildVars, logs,
                   callVars, descs>>

\* registerCollector(collector, isDefaultEnabled, factory), the factory being
\* the one named <<collector, k>> for the k-th call under this name.
registerCollector(collector, isDefaultEnabled) ==
    LET gen == regCalls[collector] + 1 IN
    /\ phase = "init"
    /\ SumOver(regCalls, Names) < MaxRegs
    /\ regCalls' = [regCalls EXCEPT ![collector] = gen]
    /\ regDefaults' = [regDefaults EXCEPT
                          ![collector] = Append(@, isDefaultEnabled)]
    /\ collectorState' = Put(collectorState, collector,
                             NewFlag(gen, isDefaultEnabled))
    /\ factories' = Put(factories, collector, <<collector, gen>>)
    /\ UNCHANGED <<forcedCollectors, cmdline, phase, buildVars, logs,
                   callVars, descs>>

\* Mutant of Resolved: a supplied value is dropped for the default.
ResolvedIgnoresOverride(flag, override) == flag.default

\* What parsing leaves in a flag's bool: the supplied value, or the default.
Resolved(flag, override) ==
    IF override = "none" THEN flag.default ELSE (override = "true")

\* The action collectorFlagAction(collector) returns, run for every flag that
\* was supplied.
collectorFlagAction(forced, collector) == Put(forced, collector, TRUE)

\* Mutant of RunActions: the action also runs for the flags that get their
\* default.
RunActionsForAll(forced, supplied) ==
    [n \in (DOMAIN forced) \cup (DOMAIN collectorState) |-> TRUE]

RECURSIVE RunActions(_, _)
RunActions(forced, supplied) ==
    IF supplied = {} THEN forced
    ELSE LET n == CHOOSE x \in supplied : TRUE IN
         RunActions(collectorFlagAction(forced, n), supplied \ {n})

\* Some name was registered more than once, so two flags bear its name.
DuplicateFlag == \E n \in Names : regCalls[n] > 1

\* kingpin.Parse(): every registered flag gets the supplied value or its
\* default, and the action of every supplied flag runs.
Parse(overrides) ==
    /\ phase = "init"
    /\ ~DuplicateFlag
    /\ collectorState' =
          [n \in DOMAIN collectorState |->
              [collectorState[n] EXCEPT
                  !.value = Resolved(collectorState[n], overrides[n])]]
    /\ forcedCollectors' =
          RunActions(forcedCollectors,
                     {n \in DOMAIN collectorState : overrides[n] # "none"})
    /\ cmdline' = overrides
    /\ phase' = "parsed"
    /\ UNCHANGED <<factories, regCalls, regDefaults, buildVars, logs, callVars,
                   descs>>

\* kingpin.Parse() on flags of which two bear the same name: the flag layer
\* reports the duplicate and the process exits before anything is built.
ParseFatal ==
    /\ phase = "init"
    /\ DuplicateFlag
    /\ phase' = "fatal"
    /\ UNCHANGED <<regVars, buildVars, logs, callVars, descs>>

---------------------------------------------------------------------------
(* NewBillingCollector *)

\* Calling a factory: it returns a collector (named after the factory that
\* made it) and a nil error, or no collector and an error.
FactoryOutcomes(factory) ==
    {<<[madeBy |-> factory], NoError>>} \cup
    {<<NoCollector, e>> : e \in FactoryErrors}

\* Mutant of IsEnabled: the flag is not looked at.
IsEnabledAlways(key) == TRUE

\* Mutant of IsEnabled: a flag the command line supplied is left to whoever
\* supplied it, and only the others are looked at.
IsEnabledUnlessForced(key) ==
    collectorState[key].value /\ key \notin DOMAIN forcedCollectors

\* The condition of the first if of the loop body: *enabled.
IsEnabled(key) == collectorState[key].value

DisabledEntry(key) == [msg |-> "Collector disabled", name |-> key]

\* main calls NewBillingCollector once the flags are parsed.
BuildStart ==
    /\ phase = "parsed"
    /\ phase' = "building"
    /\ collectors' = EmptyMap
    /\ visited' = {}
    /\ UNCHANGED <<regVars, ctorCalls, buildResult, logs, callVars, descs>>

\* Mutant of BuildEnabled: the collector the factory returned is not stored.
BuildEnabledDropsCollector(key, outcome) ==
    /\ phase = "building"
    /\ key \in (DOMAIN collectorState) \ visited
    /\ collectorState[key].value
    /\ outcome \in FactoryOutcomes(factories[key])
    /\ ctorCalls' = [ctorCalls EXCEPT ![key] = @ + 1]
    /\ visited' = visited \cup {key}
    /\ IF outcome[2] # NoError
       THEN /\ buildResult' = <<NoCollector, outcome[2]>>
            /\ phase' = "buildFailed"
       ELSE UNCHANGED <<buildResult, phase>>
    /\ UNCHANGED <<regVars, collectors, logs, callVars, descs>>

\* Mutant of BuildEnabled: a failing factory is skipped and the loop goes on.
BuildEnabledContinue(key, outcome) ==
    /\ phase = "building"
    /\ key \in (DOMAIN collectorState) \ visited
    /\ collectorState[key].value
    /\ outcome \in FactoryOutcomes(factories[key])
    /\ ctorCalls' = [ctorCalls EXCEPT ![key] = @ + 1]
    /\ visited' = visited \cup {key}
    /\ collectors' = IF outcome[2] # NoError THEN collectors
                     ELSE Put(collectors, key, outcome[1])
    /\ UNCHANGED <<regVars, phase, buildResult, logs, callVars, descs>>

\* One iteration of `for key, enabled := range collectorState`, on an enabled
\* key (Go visits the keys of a map in an unspecified order).
BuildEnabled(key, outcome) ==
    /\ phase = "building"
    /\ key \in (DOMAIN collectorState) \ visited
    /\ IsEnabled(key)
    /\ outcome \in FactoryOutcomes(factories[key])
    /\ ctorCalls' = [ctorCalls EXCEPT ![key] = @ + 1]
    /\ visited' = visited \cup {key}
    /\ IF outcome[2] # NoError
       THEN \* return nil, err
            /\ buildResult' = <<NoCollector, outcome[2]>>
            /\ phase' = "buildFailed"
            /\ UNCHANGED collectors
       ELSE /\ collectors' = Put(collectors, key, outcome[1])
            /\ UNCHANGED <<buildResult, phase>>
    /\ UNCHANGED <<regVars, logs, callVars, descs>>

\* One iteration of the loop on a disabled key.
BuildDisabled(key) ==
    /\ phase = "building"
    /\ key \in (DOMAIN collectorState) \ visited
    /\ ~IsEnabled(key)
    /\ logs' = logs (+) SetToBag({DisabledEntry(key)})
    /\ visited' = visited \cup {key}
    /\ UNCHANGED <<regVars, phase, collectors, ctorCalls, buildResult,
                   callVars, descs>>

\* return &BillingCollector{Collectors: collectors, logger: logger}, nil
BuildReturn ==
    /\ phase = "building"
    /\ visited = DOMAIN collectorState
    /\ buildResult' = <<[Collectors |-> collectors], NoError>>
    /\ phase' = "built"
    /\ UNCHANGED <<regVars, visited, collectors, ctorCalls, logs, callVars,
                   descs>>

\* n.Collectors of the orchestrator main holds.
Active == IF phase = "built" THEN DOMAIN buildResult[1].Collectors ELSE {}

---------------------------------------------------------------------------
(* Describe *)

\* Mutant of Describe: a descriptor is sent for every active collector too.
DescribePerCollector ==
    /\ phase = "built"
    /\ descs' = <<up>> \o [i \in 1..Cardinality(Active) |-> up]
    /\ UNCHANGED <<regVars, phase, buildVars, logs, callVars>>

\* ch <- up, on the channel of this Describe call.
Describe ==
    /\ phase = "built"
    /\ descs' = <<up>>
    /\ UNCHANGED <<regVars, phase, buildVars, logs, callVars>>

---------------------------------------------------------------------------
(* Collect and execute *)

InFlight(c) == callpc[c] \in {"dispatching", "awaiting"}

\* Mutant of CollectStart: a collector that failed in the call before is left
\* out of this one.
CollectStartSkipsFailed(c) ==
    LET run == Active \ {n \in DOMAIN err[c] : err[c][n] # NoError} IN
    /\ phase = "built"
    /\ callpc[c] \notin {"dispatching", "awaiting"}
    /\ ncycles < MaxCycles
    /\ ncycles' = ncycles + 1
    /\ callpc' = [callpc EXCEPT ![c] = "dispatching"]
    /\ wg' = [wg EXCEPT ![c] = Cardinality(run)]
    /\ taskpc' = [taskpc EXCEPT ![c] = [n \in run |-> "none"]]
    /\ updateCalls' = [updateCalls EXCEPT ![c] = [n \in run |-> 0]]
    /\ emitted' = [emitted EXCEPT ![c] = [n \in run |-> 0]]
    /\ err' = [err EXCEPT ![c] = [n \in Active |->
                   IF n \in run THEN NoError ELSE err[c][n]]]
    /\ sink' = [sink EXCEPT ![c] = <<>>]
    /\ UNCHANGED <<regVars, phase, buildVars, logs, descs>>

\* wg := sync.WaitGroup{}; wg.Add(len(n.Collectors)), on a channel of the
\* caller's that nothing has been sent on yet.
CollectStart(c) ==
    /\ phase = "built"
    /\ ~InFlight(c)
    /\ ncycles < MaxCycles
    /\ ncycles' = ncycles + 1
    /\ callpc' = [callpc EXCEPT ![c] = "dispatching"]
    /\ wg' = [wg EXCEPT ![c] = Cardinality(Active)]
    /\ taskpc' = [taskpc EXCEPT ![c] = [n \in Active |-> "none"]]
    /\ updateCalls' = [updateCalls EXCEPT ![c] = [n \in Active |-> 0]]
    /\ emitted' = [emitted EXCEPT ![c] = [n \in Active |-> 0]]
    /\ err' = [err EXCEPT ![c] = [n \in Active |-> NoError]]
    /\ sink' = [sink EXCEPT ![c] = <<>>]
    /\ UNCHANGED <<regVars, phase, buildVars, logs, descs>>

\* One iteration of `for name, c := range n.Collectors`: go func(name, c).
Launch(c, name) ==
    /\ callpc[c] = "dispatching"
    /\ name \in DOMAIN taskpc[c]
    /\ taskpc[c][name] = "none"
    /\ taskpc' = [taskpc EXCEPT ![c][name] = "ready"]
    /\ UNCHANGED <<regVars, phase, buildVars, logs, callpc, wg, updateCalls,
                   emitted, err, sink, ncycles, descs>>

\* The loop is over: the caller reaches wg.Wait().
EnterWait(c) ==
    /\ callpc[c] = "dispatching"
    /\ \A name \in DOMAIN taskpc[c] : taskpc[c][name] # "none"
    /\ callpc' = [callpc EXCEPT ![c] = "awaiting"]
    /\ UNCHANGED <<regVars, phase, buildVars, logs, wg, taskpc, updateCalls,
                   emitted, err, sink, ncycles, descs>>

\* Mutant of UpdateCall: the Update calls of a cycle run one at a time.
UpdateCallSerial(c, name) ==
    /\ name \in DOMAIN taskpc[c]
    /\ taskpc[c][name] = "ready"
    /\ \A n \in DOMAIN taskpc[c] : taskpc[c][n] # "updating"
    /\ taskpc' = [taskpc EXCEPT ![c][name] = "updating"]
    /\ updateCalls' = [updateCalls EXCEPT ![c][name] = @ + 1]
    /\ UNCHANGED <<regVars, phase, buildVars, logs, callpc, wg, emitted, err,
                   sink, ncycles, descs>>

\* execute: err := c.Update(ch), the call.
UpdateCall(c, name) ==
    /\ name \in DOMAIN taskpc[c]
    /\ taskpc[c][name] = "ready"
    /\ taskpc' = [taskpc EXCEPT ![c][name] = "updating"]
    /\ updateCalls' = [updateCalls EXCEPT ![c][name] = @ + 1]
    /\ UNCHANGED <<regVars, phase, buildVars, logs, callpc, wg, emitted, err,
                   sink, ncycles, descs>>

\* Mutant of UpdateEmit: the indicator is sent while Update is still sending.
UpdateEmitLate(c, name) ==
    /\ name \in DOMAIN taskpc[c]
    /\ taskpc[c][name] \in {"updating", "sent"}
    /\ emitted[c][name] < MaxMetrics
    /\ emitted' = [emitted EXCEPT ![c][name] = @ + 1]
    /\ sink' = [sink EXCEPT ![c] = Append(@, OwnMetric(name))]
    /\ UNCHANGED <<regVars, phase, buildVars, logs, callpc, wg, taskpc,
                   updateCalls, err, ncycles, descs>>

\* Inside Update: the collector sends one metric of its own on ch.
UpdateEmit(c, name) ==
    /\ name \in DOMAIN taskpc[c]
    /\ taskpc[c][name] = "updating"
    /\ emitted[c][name] < MaxMetrics
    /\ emitted' = [emitted EXCEPT ![c][name] = @ + 1]
    /\ sink' = [sink EXCEPT ![c] = Append(@, OwnMetric(name))]
    /\ UNCHANGED <<regVars, phase, buildVars, logs, callpc, wg, taskpc,
                   updateCalls, err, ncycles, descs>>

ErrorEntry(e) == [msg |-> "Cannot collect metrics", err |-> e]

\* level.Error(logger).Log("msg", "Cannot collect metrics", "err", err)
LogOutcome(e) ==
    IF e # NoError THEN logs (+) SetToBag({ErrorEntry(e)}) ELSE logs

\* Mutant of UpdateReturn: a collector whose Update failed is switched off.
UpdateReturnDisables(c, name, e) ==
    /\ name \in DOMAIN taskpc[c]
    /\ taskpc[c][name] = "updating"
    /\ err' = [err EXCEPT ![c][name] = e]
    /\ logs' = LogOutcome(e)
    /\ taskpc' = [taskpc EXCEPT ![c][name] = "returned"]
    /\ collectorState' =
          IF e = NoError THEN collectorState
          ELSE [collectorState EXCEPT ![name].value = FALSE]
    /\ UNCHANGED <<factories, forcedCollectors, regCalls, regDefaults, cmdline,
                   phase, buildVars, callpc, wg, updateCalls, emitted, sink,
                   ncycles, descs>>

\* Update returns e; execute logs it when it is an error.
UpdateReturn(c, name, e) ==
    /\ name \in DOMAIN taskpc[c]
    /\ taskpc[c][name] = "updating"
    /\ err' = [err EXCEPT ![c][name] = e]
    /\ logs' = LogOutcome(e)
    /\ taskpc' = [taskpc EXCEPT ![c][name] = "returned"]
    /\ UNCHANGED <<regVars, phase, buildVars, callpc, wg, updateCalls,
                   emitted, sink, ncycles, descs>>

\* Mutant of Success: the error branch leaves success at 1.
SuccessAlwaysOne(e) == 1

\* The value execute gives `success`.
Success(e) == IF e # NoError THEN 0 ELSE 1

\* Mutant of SendUp: `success` is one variable shared by the goroutines, 0 as
\* soon as any Update of the call has failed.
SendUpSharedSuccess(c, name) ==
    /\ name \in DOMAIN taskpc[c]
    /\ taskpc[c][name] = "returned"
    /\ sink' = [sink EXCEPT ![c] =
                   Append(@, UpSample(name,
                       IF \E n \in DOMAIN err[c] : err[c][n] # NoError
                       THEN 0 ELSE 1))]
    /\ taskpc' = [taskpc EXCEPT ![c][name] = "sent"]
    /\ UNCHANGED <<regVars, phase, buildVars, logs, callpc, wg, updateCalls,
                   emitted, err, ncycles, descs>>

\* ch <- prometheus.MustNewConstMetric(up, prometheus.GaugeValue, success, name)
SendUp(c, name) ==
    /\ name \in DOMAIN taskpc[c]
    /\ taskpc[c][name] = "returned"
    /\ sink' = [sink EXCEPT ![c] = Append(@, UpSample(name, Success(err[c][name])))]
    /\ taskpc' = [taskpc EXCEPT ![c][name] = "sent"]
    /\ UNCHANGED <<regVars, phase, buildVars, logs, callpc, wg, updateCalls,
                   emitted, err, ncycles, descs>>

\* Mutant of Done: the error path of the goroutine skips wg.Done().
DoneOnSuccess(c, name) ==
    /\ name \in DOMAIN taskpc[c]
    /\ taskpc[c][name] = "sent"
    /\ err[c][name] = NoError
    /\ wg' = [wg EXCEPT ![c] = @ - 1]
    /\ taskpc' = [taskpc EXCEPT ![c][name] = "done"]
    /\ UNCHANGED <<regVars, phase, buildVars, logs, callpc, updateCalls,
                   emitted, err, sink, ncycles, descs>>

\* Mutant of Done: the WaitGroup is one field of the orchestrator, shared by
\* the Collect calls in flight.
DoneOnSharedGroup(c, name) ==
    /\ name \in DOMAIN taskpc[c]
    /\ taskpc[c][name] = "sent"
    /\ wg' = [wg EXCEPT ![1] = IF @ > 0 THEN @ - 1 ELSE 0]
    /\ taskpc' = [taskpc EXCEPT ![c][name] = "done"]
    /\ UNCHANGED <<regVars, phase, buildVars, logs, callpc, updateCalls,
                   emitted, err, sink, ncycles, descs>>

\* wg.Done()
Done(c, name) ==
    /\ name \in DOMAIN taskpc[c]
    /\ taskpc[c][name] = "sent"
    /\ wg' = [wg EXCEPT ![c] = @ - 1]
    /\ taskpc' = [taskpc EXCEPT ![c][name] = "done"]
    /\ UNCHANGED <<regVars, phase, buildVars, logs, callpc, updateCalls,
                   emitted, err, sink, ncycles, descs>>

\* Mutant of WaitOver: the counter was set one too low.
WaitOverEarly(c) == wg[c] <= 1

\* The condition wg.Wait() returns on.
WaitOver(c) == wg[c] = 0

\* wg.Wait() returns, and Collect with it.
CollectReturn(c) ==
    /\ callpc[c] = "awaiting"
    /\ WaitOver(c)
    /\ callpc' = [callpc EXCEPT ![c] = "returned"]
    /\ UNCHANGED <<regVars, phase, buildVars, logs, wg, taskpc, updateCalls,
                   emitted, err, sink, ncycles, descs>>

\* One step of the goroutine Collect started for `name`.
TaskStep(c, name) ==
    \/ UpdateCall(c, name)
    \/ UpdateEmit(c, name)
    \/ \E e \in {NoError} \cup ErrorDetails : UpdateReturn(c, name, e)
    \/ SendUp(c, name)
    \/ Done(c, name)

---------------------------------------------------------------------------
(* The process: registrations, flag parsing, the build, then scrapes that  *)
(* follow one another.                                                     *)

Overrides == [DOMAIN collectorState -> {"none", "true", "false"}]

\* A scrape starts when none is in flight.
Scrape == (\A c \in Calls : ~InFlight(c)) /\ CollectStart(1)

Next ==
    \/ \E n \in Names, d \in BOOLEAN : registerCollector(n, d)
    \/ \E o \in Overrides : Parse(o)
    \/ ParseFatal
    \/ BuildStart
    \/ \E key \in Names :
          \E outcome \in FactoryOutcomes(<<key, regCalls[key]>>) :
             BuildEnabled(key, outcome)
    \/ \E key \in Names : BuildDisabled(key)
    \/ BuildReturn
    \/ Describe
    \/ Scrape
    \/ \E c \in Calls, n \in Names : Launch(c, n)
    \/ \E c \in Calls : EnterWait(c)
    \/ \E c \in Calls, n \in Names : TaskStep(c, n)
    \/ \E c \in Calls : CollectReturn(c)

Spec == Init /\ [][Next]_vars

\* The Go scheduler lets every goroutine that can run do so, and here every
\* Update call returns.
Fairness ==
    /\ \A c \in Calls : WF_vars(EnterWait(c)) /\ WF_vars(CollectReturn(c))
    /\ \A c \in Calls, n \in Names :
          WF_vars(Launch(c, n)) /\ WF_vars(TaskStep(c, n))

FairSpec == Spec /\ Fairness

---------------------------------------------------------------------------
(* Scrapes that overlap: Collect calls on one orchestrator, each with its   *)
(* own channel, started while another is in flight.                        *)

\* The orchestrator built from A and B registered once each with defaults d
\* and no flag supplied: the state Spec is in when that build has returned.
BuiltFrom(d) ==
    LET on == {n \in Names : d[n]} IN
    /\ factories = [n \in Names |-> <<n, 1>>]
    /\ collectorState =
          [n \in Names |-> [gen |-> 1, default |-> d[n], value |-> d[n]]]
    /\ forcedCollectors = EmptyMap
    /\ regCalls = [n \in Names |-> 1]
    /\ regDefaults = [n \in Names |-> <<d[n]>>]
    /\ cmdline = [n \in Names |-> "none"]
    /\ phase = "built"
    /\ visited = Names
    /\ collectors = [n \in on |-> [madeBy |-> <<n, 1>>]]
    /\ ctorCalls = [n \in Names |-> IF n \in on THEN 1 ELSE 0]
    /\ buildResult = <<[Collectors |-> collectors], NoError>>
    /\ logs = SetToBag({DisabledEntry(n) : n \in Names \ on})
    /\ callpc = [c \in Calls |-> "idle"]
    /\ wg = [c \in Calls |-> 0]
    /\ taskpc = [c \in Calls |-> EmptyMap]
    /\ updateCalls = [c \in Calls |-> EmptyMap]
    /\ emitted = [c \in Calls |-> EmptyMap]
    /\ err = [c \in Calls |-> EmptyMap]
    /\ sink = [c \in Calls |-> <<>>]
    /\ ncycles = 0
    /\ descs = <<>>

ConcInit == \E d \in [Names -> BOOLEAN] : BuiltFrom(d)

\* Two scrapes, numbered in the order they start; the second may start at
\* any moment after the first has, also after it has returned.
ConcScrape(c) ==
    /\ callpc[c] = "idle"
    /\ \A b \in Calls : b < c => callpc[b] # "idle"
    /\ CollectStart(c)

\* The metrics of their own the Updates of both scrapes have sent.
TotalEmitted ==
    SumOver([c \in Calls |-> SumOver(emitted[c], DOMAIN emitted[c])], Calls)

\* Over the two scrapes together the Updates send at most MaxMetrics metrics
\* of their own.
ConcTaskStep(c, name) ==
    \/ UpdateCall(c, name)
    \/ TotalEmitted < MaxMetrics /\ UpdateEmit(c, name)
    \/ \E e \in {NoError} \cup ErrorDetails : UpdateReturn(c, name, e)
    \/ SendUp(c, name)
    \/ Done(c, name)

ConcNext ==
    \/ \E c \in Calls : ConcScrape(c)
    \/ \E c \in Calls, n \in Names : Launch(c, n)
    \/ \E c \in Calls : EnterWait(c)
    \/ \E c \in Calls, n \in Names : ConcTaskStep(c, n)
    \/ \E c \in Calls : CollectReturn(c)

ConcSpec == ConcInit /\ [][ConcNext]_vars
---------------------------------------------------------------------------
(* What a call's sink holds, per collector *)

\* The samples collector `name` contributed to the sink of call c, in order.
SamplesOf(c, name) == SelectSeq(sink[c], LAMBDA m : m.collector = name)

\* Its success indicators among them.
UpsOf(c, name) == SelectSeq(SamplesOf(c, name), LAMBDA m : m.desc = "up")

\* All success indicators in the sink of call c.
AllUps(c) == SelectSeq(sink[c], LAMBDA m : m.desc = "up")

\* The collectors of call c whose Update returned an error.
Failed(c) == {n \in DOMAIN err[c] : err[c][n] # NoError}

---------------------------------------------------------------------------
\* C1: when a Collect call on N active collectors has returned, its sink
\* holds exactly N `up` samples: exactly one per active collector, labelled
\* with its name, with value 0 if its Update returned an error and 1 if not;
\* and no sink ever holds more than one `up` sample for a collector.
C1_OneUpPerCollector ==
    \A c \in Calls :
        /\ \A n \in Names : Len(UpsOf(c, n)) <= 1
        /\ callpc[c] = "returned" =>
              /\ Len(AllUps(c)) = Cardinality(Active)
              /\ \A n \in Active :
                    /\ Len(UpsOf(c, n)) = 1
                    /\ UpsOf(c, n)[1].value =
                          (IF err[c][n] = NoError THEN 1 ELSE 0)
              /\ \A n \in Names \ Active : Len(UpsOf(c, n)) = 0

\* A returned call on two collectors of which one failed and one succeeded.
C1_Witness ==
    /\ callpc[1] = "returned"
    /\ Active = {"A", "B"}
    /\ err[1]["A"] # NoError
    /\ err[1]["B"] = NoError
    /\ UpsOf(1, "A") = <<UpSample("A", 0)>>
    /\ UpsOf(1, "B") = <<UpSample("B", 1)>>

\* The transitions of a collection cycle.
CycleSteps ==
    {<<"idle", "dispatching">>, <<"dispatching", "awaiting">>,
     <<"awaiting", "returned">>, <<"returned", "dispatching">>}

\* C2: a Collect call that has returned has no task outstanding: every
\* active collector's goroutine has sent its indicator and called Done; from
\* then on nothing is sent on that call's sink; and a cycle only moves
\* idle -> dispatching -> awaiting -> returned.
C2_BarrierBeforeReturn ==
    /\ [](\A c \in Calls : callpc[c] = "returned" =>
             /\ DOMAIN taskpc[c] = Active
             /\ \A n \in Active : taskpc[c][n] = "done" /\ Len(UpsOf(c, n)) = 1)
    /\ [][\A c \in Calls :
             /\ (callpc[c] = "returned" /\ callpc'[c] = "returned")
                    => sink'[c] = sink[c]
             /\ callpc'[c] # callpc[c]
                    => <<callpc[c], callpc'[c]>> \in CycleSteps]_vars

\* A call on two collectors has returned.
C2_Witness ==
    /\ callpc[1] = "returned"
    /\ Cardinality(Active) = 2
    /\ \A n \in Active : taskpc[1][n] = "done"
    /\ Len(sink[1]) >= 2

\* What a collector in local state (pc, k own metrics sent, Update returned e)
\* has contributed to the sink.
Contribution(name, pc, k, e) ==
    [i \in 1..k |-> OwnMetric(name)] \o
    (IF pc \in {"sent", "done"}
     THEN <<UpSample(name, IF e = NoError THEN 1 ELSE 0)>> ELSE <<>>)

\* C3: what a collector contributes to a cycle depends on its own run alone:
\* whatever the other collectors did (failed or not), its samples in the sink
\* are its own metrics followed, once it has got there, by its indicator with
\* the value of its own outcome; its Update is invoked once; a failure of
\* another collector leaves its next step enabled and, once all are done,
\* leaves Collect free to return.
C3_FailureIsolation ==
    \A c \in Calls : \A b \in DOMAIN taskpc[c] :
        /\ SamplesOf(c, b) =
              Contribution(b, taskpc[c][b], emitted[c][b], err[c][b])
        /\ taskpc[c][b] \in {"returned", "sent", "done"} => updateCalls[c][b] = 1
        /\ (Failed(c) \ {b} # {} /\ taskpc[c][b] \notin {"none", "done"})
              => ENABLED TaskStep(c, b)
        /\ (Failed(c) # {} /\ callpc[c] = "awaiting"
                /\ \A n \in DOMAIN taskpc[c] : taskpc[c][n] = "done")
              => ENABLED CollectReturn(c)

\* A failed, B ran after it and succeeded, and Collect returned.
C3_Witness ==
    /\ callpc[1] = "returned"
    /\ Active = {"A", "B"}
    /\ err[1]["A"] # NoError
    /\ sink[1] = <<UpSample("A", 0), OwnMetric("B"), UpSample("B", 1)>>

\* C4: while one collector sits inside Update, every other collector of the
\* call can take its next step (be launched, call Update, send, finish), and
\* the Collect call has not returned.
C4_HungCollector ==
    \A c \in Calls : \A a \in DOMAIN taskpc[c] :
        taskpc[c][a] = "updating" =>
            /\ callpc[c] # "returned"
            /\ ~ENABLED CollectReturn(c)
            /\ \A b \in (DOMAIN taskpc[c]) \ {a} :
                  /\ taskpc[c][b] = "none" => ENABLED Launch(c, b)
                  /\ taskpc[c][b] \notin {"none", "done"} => ENABLED TaskStep(c, b)

\* A is inside Update, B has finished and its samples are in the sink, and
\* Collect waits.
C4_Witness ==
    /\ callpc[1] = "awaiting"
    /\ Active = {"A", "B"}
    /\ taskpc[1]["A"] = "updating"
    /\ taskpc[1]["B"] = "done"
    /\ SamplesOf(1, "B") = <<OwnMetric("B"), UpSample("B", 1)>>

\* C5: under fair scheduling, with every Update returning, a Collect call
\* that has started returns, whether or not collectors fail.
C5_CollectReturns ==
    \A c \in Calls : InFlight(c) ~> (callpc[c] = "returned")

\* A call in which a collector failed has returned.
C5_Witness ==
    /\ callpc[1] = "returned"
    /\ Failed(1) # {}
    /\ \A n \in Active : taskpc[1][n] = "done"

\* C6: in the sink of a call, nothing of a collector follows that collector's
\* success indicator: its own metrics all come before it.
C6_MetricsBeforeIndicator ==
    \A c \in Calls : \A i, j \in 1..Len(sink[c]) :
        (i < j /\ sink[c][i].desc = "up")
            => sink[c][j].collector # sink[c][i].collector

\* A's metric, then all of B's samples, then A's indicator: the samples of
\* the two collectors interleave and each indicator comes after its metric.
C6_Witness ==
    /\ callpc[1] = "returned"
    /\ sink[1] = <<OwnMetric("A"), OwnMetric("B"), UpSample("B", 1),
                   UpSample("A", 1)>>

\* The build has looked at the flags.
BuildRan == phase \in {"building", "built", "buildFailed"}

\* C7: a registered collector whose flag is false when the build runs has no
\* factory call, is in neither the map being built nor the active set, and in
\* no Collect call has a goroutine, an Update call or a sample in the sink.
C7_DisabledNeverRuns ==
    \A n \in DOMAIN collectorState :
        (BuildRan /\ ~collectorState[n].value) =>
            /\ ctorCalls[n] = 0
            /\ n \notin DOMAIN collectors
            /\ n \notin Active
            /\ \A c \in Calls :
                  /\ n \notin DOMAIN taskpc[c]
                  /\ n \notin DOMAIN updateCalls[c]
                  /\ Len(SamplesOf(c, n)) = 0

\* B is registered and disabled, A is enabled, and a Collect call returned
\* with A's samples only.
C7_Witness ==
    /\ phase = "built"
    /\ DOMAIN collectorState = {"A", "B"}
    /\ ~collectorState["B"].value
    /\ callpc[1] = "returned"
    /\ SamplesOf(1, "A") # <<>>
    /\ SamplesOf(1, "B") = <<>>

\* C8: when the build has succeeded, the active set is exactly the set of
\* registered names whose flag is true, each mapped to the collector made by
\* the factory registered under that name, each such factory called once and
\* no other factory called.
C8_ActiveSetExact ==
    phase = "built" =>
        /\ buildResult[2] = NoError
        /\ Active = {n \in DOMAIN collectorState : collectorState[n].value}
        /\ \A n \in Active :
              /\ buildResult[1].Collectors[n] = [madeBy |-> factories[n]]
              /\ ctorCalls[n] = 1
        /\ \A n \in Names \ Active : ctorCalls[n] = 0

\* A enabled by default, B disabled by default, no overrides: the active set
\* is {A} and a Collect call yields one `up` sample, none for B.
C8_Witness ==
    /\ phase = "built"
    /\ DOMAIN collectorState = {"A", "B"}
    /\ collectorState["A"].default /\ ~collectorState["B"].default
    /\ DOMAIN forcedCollectors = {}
    /\ Active = {"A"}
    /\ callpc[1] = "returned"
    /\ AllUps(1) = <<UpSample("A", 1)>>

\* C9: a factory call that yields no collector fails the build at once:
\* NewBillingCollector has returned that error and a nil orchestrator, and
\* from then on no factory is called and the build stays failed.
C9_BuildFailsFast ==
    /\ [](\A n \in Names :
             (ctorCalls[n] >= 1 /\ n \notin DOMAIN collectors) =>
                 /\ phase = "buildFailed"
                 /\ buildResult[1] = NoCollector
                 /\ buildResult[2] \in FactoryErrors
                 /\ Active = {})
    /\ [][phase = "buildFailed" =>
             /\ phase' = "buildFailed"
             /\ ctorCalls' = ctorCalls
             /\ buildResult' = buildResult]_vars

\* The build failed on the first factory it called, with another enabled
\* collector not yet visited.
C9_Witness ==
    /\ phase = "buildFailed"
    /\ buildResult[1] = NoCollector
    /\ \E n, m \in DOMAIN collectorState :
          /\ n # m
          /\ ctorCalls[n] = 1 /\ n \notin DOMAIN collectors
          /\ collectorState[m].value /\ ctorCalls[m] = 0 /\ m \notin visited

\* The build failed on the second factory it called: the collector the first
\* one made is not returned.
C9_WitnessPartial ==
    /\ phase = "buildFailed"
    /\ buildResult[1] = NoCollector
    /\ DOMAIN collectors # {}

Parsed == phase \notin {"init", "fatal"}

\* The isDefaultEnabled the collector was registered with.
RegisteredDefault(n) == regDefaults[n][Len(regDefaults[n])]

\* C11: factories and collectorState always have the same keys, the
\* registered names; once the flags are parsed, every registered name has one
\* boolean, the supplied value if the command line supplied one and the
\* default it was registered with otherwise.
C11_ResolvedEnabled ==
    /\ DOMAIN factories = DOMAIN collectorState
    /\ DOMAIN collectorState = {n \in Names : regCalls[n] >= 1}
    /\ Parsed =>
          /\ DOMAIN cmdline = DOMAIN collectorState
          /\ \A n \in DOMAIN collectorState :
                /\ collectorState[n].value \in BOOLEAN
                /\ collectorState[n].value =
                      (CASE cmdline[n] = "none"  -> RegisteredDefault(n)
                         [] cmdline[n] = "true"  -> TRUE
                         [] cmdline[n] = "false" -> FALSE)

\* A is enabled by default and switched off on the command line; B is
\* enabled by default and left alone.
C11_Witness ==
    /\ phase = "parsed"
    /\ DOMAIN collectorState = {"A", "B"}
    /\ regDefaults["A"] = <<TRUE>> /\ cmdline["A"] = "false"
    /\ ~collectorState["A"].value
    /\ regDefaults["B"] = <<TRUE>> /\ cmdline["B"] = "none"
    /\ collectorState["B"].value

\* C12: forcedCollectors marks exactly the names whose flag the command line
\* supplied, whether or not the supplied value equals the default; before
\* parsing it marks nothing.
C12_ForcedIffSupplied ==
    /\ \A n \in DOMAIN forcedCollectors : forcedCollectors[n] = TRUE
    /\ ~Parsed => DOMAIN forcedCollectors = {}
    /\ Parsed =>
          DOMAIN forcedCollectors =
              {n \in DOMAIN collectorState : cmdline[n] # "none"}

\* A's flag was supplied with the value of its default and is marked; B's
\* flag was not supplied and is not marked, with the same resolved value.
C12_Witness ==
    /\ phase = "parsed"
    /\ DOMAIN collectorState = {"A", "B"}
    /\ regDefaults["A"] = <<TRUE>> /\ cmdline["A"] = "true"
    /\ regDefaults["B"] = <<TRUE>> /\ cmdline["B"] = "none"
    /\ collectorState["A"].value /\ collectorState["B"].value
    /\ DOMAIN forcedCollectors = {"A"}

\* The set of samples in the sink of call c.
SampleSet(c) == {sink[c][i] : i \in 1..Len(sink[c])}

\* The samples a finished cycle holds, given which flags resolved true, how
\* many metrics each Update sent and what each Update returned.
SamplesFrom(resolved, sent, outcome) ==
    UNION {{OwnMetric(n) : k \in 1..sent[n]} \cup
           {UpSample(n, IF outcome[n] = NoError THEN 1 ELSE 0)} :
           n \in resolved}

\* The names whose flag resolved true.
ResolvedTrue == {n \in DOMAIN collectorState : collectorState[n].value}

\* C13: the active set, the descriptor and the samples of a cycle are
\* determined by the resolved flag values and by what the Update calls did,
\* so two runs that agree on these and differ in forcedCollectors agree on
\* all three: the active set is the set of names resolved true, Describe
\* sends `up` alone, and a returned Collect call holds the samples of the
\* names resolved true.
C13_ForcedHasNoEffect ==
    phase = "built" =>
        /\ Active = ResolvedTrue
        /\ descs \in {<<>>, <<up>>}
        /\ \A c \in Calls :
              callpc[c] = "returned" =>
                  SampleSet(c) = SamplesFrom(ResolvedTrue, emitted[c], err[c])

\* A's flag was supplied and is marked, B's was not; both resolved true, and
\* after Describe and a Collect call both contributed alike.
C13_Witness ==
    /\ phase = "built"
    /\ DOMAIN forcedCollectors = {"A"}
    /\ ResolvedTrue = {"A", "B"}
    /\ descs = <<up>>
    /\ callpc[1] = "returned"
    /\ SampleSet(1) = {OwnMetric("A"), UpSample("A", 1),
                       OwnMetric("B"), UpSample("B", 1)}

\* The error entries the logger holds.
ErrorEntries == {x \in BagToSet(logs) : x.msg = "Cannot collect metrics"}

\* How many error entries the logger holds.
NumErrorEntries ==
    SumOver([x \in ErrorEntries |-> CopiesIn(x, logs)], ErrorEntries)

\* C14: every Collect call starts afresh: it begins with an empty sink, one
\* goroutine per active collector, no Update call made and no error carried
\* over from the call before; in every call each collector's Update is called
\* at most once, and exactly once by the time the call returns, with one
\* indicator whose value is that of this call's outcome.
C14_CyclesIndependent ==
    /\ [](\A c \in Calls :
             /\ \A n \in DOMAIN updateCalls[c] : updateCalls[c][n] <= 1
             /\ callpc[c] = "returned" =>
                   /\ DOMAIN updateCalls[c] = Active
                   /\ \A n \in Active :
                         /\ updateCalls[c][n] = 1
                         /\ UpsOf(c, n) =
                               <<UpSample(n, IF err[c][n] = NoError
                                             THEN 1 ELSE 0)>>)
    /\ [][\A c \in Calls :
             (callpc[c] # "dispatching" /\ callpc'[c] = "dispatching") =>
                 /\ sink'[c] = <<>>
                 /\ taskpc'[c] = [n \in Active |-> "none"]
                 /\ updateCalls'[c] = [n \in Active |-> 0]
                 /\ err'[c] = [n \in Active |-> NoError]
                 /\ wg'[c] = Cardinality(Active)]_vars

\* The second call has returned with A reporting 1, and the logger holds the
\* error of A's Update in the first call.
C14_Witness ==
    /\ Active = {"A"}
    /\ ncycles = 2
    /\ callpc[1] = "returned"
    /\ NumErrorEntries = 1
    /\ err[1]["A"] = NoError
    /\ updateCalls[1]["A"] = 1
    /\ UpsOf(1, "A") = <<UpSample("A", 1)>>

\* C15: whatever the active set and whatever calls came before, Describe can
\* be called on a built orchestrator and what a Describe call sends is the
\* one descriptor github_billing_up, labelled by collector.
C15_DescribeIdempotent ==
    /\ phase = "built" => ENABLED Describe
    /\ descs # <<>> =>
          /\ Len(descs) = 1
          /\ descs[1].fqName = "github_billing_up"
          /\ descs[1].labels = <<"collector">>

\* Describe has been called on an orchestrator with two active collectors
\* on which two Collect calls were made.
C15_Witness ==
    /\ descs = <<up>>
    /\ Cardinality(Active) = 2
    /\ ncycles = 2
    /\ callpc[1] = "returned"

\* C16 as stated: for every collector whose Update has returned an error in
\* a call, the logger holds an error entry that carries the collector's name
\* and the error; and it holds as many error entries as Updates have failed.
C16_ErrorEntryNamesCollector ==
    \A c \in Calls : \A n \in DOMAIN taskpc[c] :
        (taskpc[c][n] \in {"returned", "sent", "done"} /\ err[c][n] # NoError)
            => \E x \in ErrorEntries :
                  /\ x.err = err[c][n]
                  /\ "name" \in DOMAIN x
                  /\ x.name = n

\* The registry and the orchestrator's map.
Registry == <<factories, collectorState, forcedCollectors, buildResult>>

\* C17: every step of Describe, of Collect and of its goroutines leaves the
\* factories, the flags, forcedCollectors and the orchestrator's collector
\* map as they were.
C17_ReadOnlyAfterBuild ==
    [][phase = "built" => (Registry' = Registry /\ phase' = "built")]_vars

\* Describe and two Collect calls have run, an Update failed, and the
\* registry is as the build left it.
C17_Witness ==
    /\ phase = "built"
    /\ descs = <<up>>
    /\ ncycles = 2
    /\ callpc[1] = "returned"
    /\ Failed(1) # {}
    /\ Active = {n \in DOMAIN collectorState : collectorState[n].value}
    /\ DOMAIN factories = DOMAIN collectorState

\* The goroutines of call c that have not called Done.
Outstanding(c) == {n \in DOMAIN taskpc[c] : taskpc[c][n] # "done"}

\* C18: with Collect calls overlapping, each call's WaitGroup counts its own
\* outstanding goroutines and no others, a call whose goroutines are all done
\* can return whatever the other call is doing, a returned call has none of
\* its own outstanding, and each call's sink holds, per collector, what that
\* call's own goroutine sent: one indicator per active collector once it has
\* returned, with the value of that call's own outcome.
C18_CallsDoNotInterfere ==
    \A c \in Calls :
        /\ wg[c] = Cardinality(Outstanding(c))
        /\ (callpc[c] = "awaiting" /\ Outstanding(c) = {})
              => ENABLED CollectReturn(c)
        /\ \A n \in DOMAIN taskpc[c] :
              SamplesOf(c, n) =
                  Contribution(n, taskpc[c][n], emitted[c][n], err[c][n])
        /\ callpc[c] = "returned" =>
              /\ Outstanding(c) = {}
              /\ Len(AllUps(c)) = Cardinality(Active)
              /\ \A n \in Active :
                    UpsOf(c, n) =
                        <<UpSample(n, IF err[c][n] = NoError THEN 1 ELSE 0)>>

\* Call 1 has returned, with A failed, while call 2, started before call 1
\* returned, still waits for A, whose Update is running, and holds B's
\* indicator.
C18_Witness ==
    /\ Active = {"A", "B"}
    /\ callpc[1] = "returned"
    /\ callpc[2] = "awaiting"
    /\ taskpc[2]["A"] = "updating"
    /\ taskpc[2]["B"] = "done"
    /\ UpsOf(1, "A") = <<UpSample("A", 0)>>
    /\ sink[2] = <<OwnMetric("B"), UpSample("B", 1)>>
    /\ wg[1] = 0 /\ wg[2] = 1

===========================================================================
